---- MODULE Spec2Model ----
(***************************************************************************)
(* Model of the word_collection router: the two read handlers get_rank     *)
(* (GET /rank) and get_word_tags (GET /word_tags), each applied to the     *)
(* rows the record source returns for the request's time range.            *)
(*                                                                         *)
(* A Python dict is modelled as a sequence of <<key, value>> pairs in      *)
(* insertion order; a Python str that is compared or sorted (the           *)
(* formatted timestamp) as the sequence of its character codes; None as    *)
(* the value None.                                                         *)
(***************************************************************************)
EXTENDS Integers, Sequences, FiniteSets, TLC

\* ---------------------------------------------------------------- bounds
\* rows per request in the ranking runs with freely chosen rows
MaxLen == 3
\* rows per request in the mention-summary runs
MaxRows == 2
\* rows per request in the ranking runs made of one long bucket
MaxRun == 12

\* ------------------------------------------------------ program constants
HTTP_200_OK == 200
HTTP_204_NO_CONTENT == 204
HTTP_500_INTERNAL_SERVER_ERROR == 500
\* len(result_words) >= 10: break
TopLimit == 10

None == "<None>"

\* ------------------------------------------------------------ input sets
\* datetime values of the rows (year, month, day, hour, minute, second)
Timestamps ==
    { [year |-> 2023, month |-> 8, day |-> 28, hour |-> 4, minute |-> 0, second |-> 0],
      [year |-> 2023, month |-> 8, day |-> 28, hour |-> 16, minute |-> 0, second |-> 0] }

RunTimestamp == [year |-> 2023, month |-> 8, day |-> 28, hour |-> 4, minute |-> 0, second |-> 0]

Counts == {1, 2}
Ranks == {1, 2}

\* <<incorrect_word, correct_word>>
WordPairs == { <<"gut-i", "gud-i">>, <<"yeokhwal", "yeokhal">> }

\* content tags of the rows of a ranking run, each with the word pair its rows carry
RankTags == {"news", "webtoon"}

PairOfTag(t) == IF t = "news" THEN <<"gut-i", "gud-i">> ELSE <<"yeokhwal", "yeokhal">>

\* the tag query parameter of GET /rank (None: not given)
TagParams == {None, "news", "webtoon", "sports"}

\* content tags of the rows of a mention-summary run
MentionTags == {"news", "webtoon", "youtube", "sports", "total", "search_word"}

\* the search_word query parameter of GET /word_tags
SearchWords == {"gut-i", "yeokhal"}

\* a row as the record source returns it (the 6-tuple unpacked at line 151/322)
Row(ts, iw, cw, t, c, r) ==
    [timestamp |-> ts, incorrect_word |-> iw, correct_word |-> cw,
     content_tag |-> t, occurrence_count |-> c, rank |-> r]

RankRows ==
    { Row(ts, PairOfTag(t)[1], PairOfTag(t)[2], t, c, r) :
        ts \in Timestamps, t \in RankTags, c \in Counts, r \in Ranks }

MentionRows ==
    { Row(ts, p[1], p[2], t, c, 1) :
        ts \in Timestamps, p \in WordPairs, t \in MentionTags, c \in Counts }

\* ------------------------------------------------------------- strftime
\* two / four decimal digits as character codes ('0' is 48)
Pad2(n) == << 48 + ((n \div 10) % 10), 48 + (n % 10) >>

Pad4(n) == << 48 + ((n \div 1000) % 10), 48 + ((n \div 100) % 10) >> \o Pad2(n)

\* timestamp.strftime("%Y-%m-%d %H:%M:%S"): '-' is 45, ' ' is 32, ':' is 58
StrfTime(dt) ==
    Pad4(dt.year) \o <<45>> \o Pad2(dt.month) \o <<45>> \o Pad2(dt.day) \o <<32>>
    \o Pad2(dt.hour) \o <<58>> \o Pad2(dt.minute) \o <<58>> \o Pad2(dt.second)

\* the start_time / end_time query parameters: a time in the format, the empty string
\* and a date without a time
TimeParams ==
    { StrfTime([year |-> 2023, month |-> 8, day |-> 27, hour |-> 22, minute |-> 12, second |-> 3]),
      <<>>,
      Pad4(2023) \o <<45>> \o Pad2(8) \o <<45>> \o Pad2(27) }

IsDigits(s, from, to) == \A i \in from..to : s[i] \in 48..57

\* datetime.strptime(s, "%Y-%m-%d %H:%M:%S") raises ValueError (decided here for
\* strings of zero-padded fields: the fields and the separators must all be there)
StrptimeFails(s) ==
    ~ ( /\ Len(s) = 19
        /\ IsDigits(s, 1, 4) /\ s[5] = 45 /\ IsDigits(s, 6, 7) /\ s[8] = 45
        /\ IsDigits(s, 9, 10) /\ s[11] = 32 /\ IsDigits(s, 12, 13) /\ s[14] = 58
        /\ IsDigits(s, 15, 16) /\ s[17] = 58 /\ IsDigits(s, 18, 19) )

\* "if start_time: strptime(start_time) else: now - 24h", and the same for end_time:
\* the parse is attempted for a non-empty string only
TimesFail(start_time, end_time) ==
    \/ (start_time # <<>> /\ StrptimeFails(start_time))
    \/ (end_time # <<>> /\ StrptimeFails(end_time))

\* the pairs of time parameters on which the handlers raise ValueError, and the others
FailingTimes == { p \in TimeParams \X TimeParams : TimesFail(p[1], p[2]) }

ParsedTimes == { p \in TimeParams \X TimeParams : ~ TimesFail(p[1], p[2]) }

\* Python's str < str: lexicographic on the character codes
RECURSIVE StrLess(_, _)
StrLess(a, b) ==
    IF b = <<>> THEN FALSE
    ELSE IF a = <<>> THEN TRUE
    ELSE IF a[1] # b[1] THEN a[1] < b[1]
    ELSE StrLess(Tail(a), Tail(b))

\* ------------------------------------------------------------ Python dict
DictHas(d, k) == \E i \in 1..Len(d) : d[i][1] = k

DictGet(d, k) == d[CHOOSE i \in 1..Len(d) : d[i][1] = k][2]

\* d[k] = v: a new key goes last, an existing key keeps its place
DictSet(d, k, v) ==
    IF DictHas(d, k)
    THEN [i \in 1..Len(d) |-> IF d[i][1] = k THEN <<k, v>> ELSE d[i]]
    ELSE Append(d, <<k, v>>)

\* ---------------------------------------------------------------- get_rank
\* the dict appended to processed_data[timestamp_str][content_tag]
WordEntry(record) ==
    [incorrect_word |-> record.incorrect_word, correct_word |-> record.correct_word,
     occurrence_count |-> record.occurrence_count, rank |-> record.rank]

\* one pass of the loop "for record in raw_data"
AddRecord(processed_data, record) ==
    LET timestamp_str == StrfTime(record.timestamp)
        content_tag == record.content_tag
        p1 == IF DictHas(processed_data, timestamp_str) THEN processed_data
              ELSE DictSet(processed_data, timestamp_str, <<>>)
        bucket == DictGet(p1, timestamp_str)
        b1 == IF DictHas(bucket, content_tag) THEN bucket
              ELSE DictSet(bucket, content_tag, <<>>)
        b2 == DictSet(b1, content_tag, Append(DictGet(b1, content_tag), WordEntry(record)))
    IN  DictSet(p1, timestamp_str, b2)

RECURSIVE ProcessedFrom(_, _, _)
ProcessedFrom(raw_data, i, processed_data) ==
    IF i > Len(raw_data) THEN processed_data
    ELSE ProcessedFrom(raw_data, i + 1, AddRecord(processed_data, raw_data[i]))

ProcessedData(raw_data) == ProcessedFrom(raw_data, 1, <<>>)

\* sorted(processed_data.items()): the items ascending by key (keys are unique)
RECURSIVE InsertItem(_, _)
InsertItem(sorted, item) ==
    IF sorted = <<>> THEN <<item>>
    ELSE IF StrLess(item[1], sorted[1][1]) THEN <<item>> \o sorted
    ELSE <<sorted[1]>> \o InsertItem(Tail(sorted), item)

RECURSIVE SortedItemsFrom(_, _, _)
SortedItemsFrom(items, i, sorted) ==
    IF i > Len(items) THEN sorted
    ELSE SortedItemsFrom(items, i + 1, InsertItem(sorted, items[i]))

\* the items in insertion order, the sort left out
SortedItems_Unsorted(processed_data) == processed_data

SortedItems(processed_data) == SortedItemsFrom(processed_data, 1, <<>>)

\* sorted(words, key=occurrence_count, reverse=True): descending, and stable
\* (reverse=True keeps equal keys in their original order)
RECURSIVE InsertWord(_, _)
InsertWord(sorted, word) ==
    IF sorted = <<>> THEN <<word>>
    ELSE IF word.occurrence_count > sorted[1].occurrence_count THEN <<word>> \o sorted
    ELSE <<sorted[1]>> \o InsertWord(Tail(sorted), word)

RECURSIVE SortedWordsFrom(_, _, _)
SortedWordsFrom(words, i, sorted) ==
    IF i > Len(words) THEN sorted
    ELSE SortedWordsFrom(words, i + 1, InsertWord(sorted, words[i]))

\* the words in their order of arrival, the sort left out
SortedWords_Unsorted(words) == words

\* a descending sort that is not stable: a word goes before the words of its count
RECURSIVE InsertWordFirst(_, _)
InsertWordFirst(sorted, word) ==
    IF sorted = <<>> THEN <<word>>
    ELSE IF word.occurrence_count >= sorted[1].occurrence_count THEN <<word>> \o sorted
    ELSE <<sorted[1]>> \o InsertWordFirst(Tail(sorted), word)

RECURSIVE SortedWordsFirstFrom(_, _, _)
SortedWordsFirstFrom(words, i, sorted) ==
    IF i > Len(words) THEN sorted
    ELSE SortedWordsFirstFrom(words, i + 1, InsertWordFirst(sorted, words[i]))

SortedWords_TiesReversed(words) == SortedWordsFirstFrom(words, 1, <<>>)

SortedWords(words) == SortedWordsFrom(words, 1, <<>>)

\* the scan ended one entry late
LimitReached_Late(result_words) == Len(result_words) > TopLimit

\* the test that ends the scan: len(result_words) >= 10
LimitReached(result_words) == Len(result_words) >= TopLimit

\* every word kept, whatever its rank
RankIsNew_Always(word, unique_ranks) == TRUE

\* the test that keeps a word: word["rank"] not in unique_ranks
RankIsNew(word, unique_ranks) == word.rank \notin unique_ranks

\* the loop "for word in sorted_words" with its set unique_ranks and its break
RECURSIVE ScanWords(_, _, _, _)
ScanWords(words, i, unique_ranks, result_words) ==
    IF i > Len(words) THEN result_words
    ELSE LET word == words[i]
             kept == RankIsNew(word, unique_ranks)
             r1 == IF kept THEN Append(result_words, word) ELSE result_words
             u1 == IF kept THEN unique_ranks \cup {word.rank} ELSE unique_ranks
         IN  IF LimitReached(r1) THEN r1
             ELSE ScanWords(words, i + 1, u1, r1)

ResultWords(sorted_words) == ScanWords(sorted_words, 1, {}, <<>>)

\* all_words: the lists of content_data.values() one after the other
RECURSIVE AllWordsFrom(_, _, _)
AllWordsFrom(content_data, i, all_words) ==
    IF i > Len(content_data) THEN all_words
    ELSE AllWordsFrom(content_data, i + 1, all_words \o content_data[i][2])

AllWords(content_data) == AllWordsFrom(content_data, 1, <<>>)

\* "if tag:" is false for None and for the empty string
TagGiven(tag) == tag # None /\ tag # ""

\* timestamp_data after the assignment timestamp_data[key] = result_words
TimestampData(timestamp, key, result_words) ==
    [k \in {"timestamp", key} |-> IF k = key THEN result_words ELSE timestamp]

\* a bucket without the requested tag emitted with an empty list instead of skipped
BucketEntries_EmptyList(timestamp, content_data, tag) ==
    IF TagGiven(tag)
    THEN IF DictHas(content_data, tag)
         THEN << TimestampData(timestamp, tag,
                               ResultWords(SortedWords(DictGet(content_data, tag)))) >>
         ELSE << TimestampData(timestamp, tag, <<>>) >>
    ELSE << TimestampData(timestamp, "total",
                          ResultWords(SortedWords(AllWords(content_data)))) >>

\* one pass of the loop over the sorted buckets: the entries it appends to result
\* (none when the requested tag is absent from the bucket: "continue")
BucketEntries(timestamp, content_data, tag) ==
    IF TagGiven(tag)
    THEN IF DictHas(content_data, tag)
         THEN << TimestampData(timestamp, tag,
                               ResultWords(SortedWords(DictGet(content_data, tag)))) >>
         ELSE <<>>
    ELSE << TimestampData(timestamp, "total",
                          ResultWords(SortedWords(AllWords(content_data)))) >>

RECURSIVE RankResultFrom(_, _, _, _)
RankResultFrom(items, i, tag, result) ==
    IF i > Len(items) THEN result
    ELSE RankResultFrom(items, i + 1, tag,
                        result \o BucketEntries(items[i][1], items[i][2], tag))

RankResult(raw_data, tag) == RankResultFrom(SortedItems(ProcessedData(raw_data)), 1, tag, <<>>)

\* ----------------------------------------------------------- get_word_tags
\* mention_counts[timestamp_str] as first created
NewSummary(search_word) ==
    [total |-> 0, news |-> 0, webtoon |-> 0, youtube |-> 0,
     search_word |-> search_word, incorrect_word |-> <<>>, correct_word |-> <<>>]

\* keys of the summary whose value is an int ("+=" an int raises TypeError on the others)
IntKeys == {"total", "news", "webtoon", "youtube"}

\* the exception "mention_counts[timestamp_str][content_tag] += occurrence_count" raises
AddFault(summary, content_tag) ==
    IF content_tag \notin DOMAIN summary THEN "KeyError"
    ELSE IF content_tag \notin IntKeys THEN "TypeError"
    ELSE ""

\* mention_counts[timestamp_str][content_tag] += occurrence_count
AddToChannel(summary, content_tag, occurrence_count) ==
    [summary EXCEPT ![content_tag] = @ + occurrence_count]

\* mention_counts[timestamp_str]["total"] += occurrence_count
AddToTotal(summary, occurrence_count) ==
    [summary EXCEPT !["total"] = @ + occurrence_count]

InList(x, list) == \E i \in 1..Len(list) : list[i] = x

\* the "if (search_word == incorrect_word) or (search_word == correct_word)" block
AddWords(summary, search_word, incorrect_word, correct_word) ==
    IF search_word = incorrect_word \/ search_word = correct_word
    THEN LET s1 == IF InList(incorrect_word, summary.incorrect_word) THEN summary
                   ELSE [summary EXCEPT !.incorrect_word = Append(@, incorrect_word)]
         IN  IF InList(correct_word, s1.correct_word) THEN s1
             ELSE [s1 EXCEPT !.correct_word = Append(@, correct_word)]
    ELSE summary

\* one pass of the loop "for record in raw_data": the exception it raises ("" for none)
\* and mention_counts after it
CountRecord(mention_counts, record, search_word) ==
    LET timestamp_str == StrfTime(record.timestamp)
        m1 == IF DictHas(mention_counts, timestamp_str) THEN mention_counts
              ELSE DictSet(mention_counts, timestamp_str, NewSummary(search_word))
        s0 == DictGet(m1, timestamp_str)
        exc == AddFault(s0, record.content_tag)
        s1 == AddToChannel(s0, record.content_tag, record.occurrence_count)
        s2 == AddToTotal(s1, record.occurrence_count)
        s3 == AddWords(s2, search_word, record.incorrect_word, record.correct_word)
    IN  IF exc # "" THEN [exc |-> exc, mention_counts |-> m1]
        ELSE [exc |-> "", mention_counts |-> DictSet(m1, timestamp_str, s3)]

RECURSIVE MentionCountsFrom(_, _, _, _)
MentionCountsFrom(raw_data, i, search_word, mention_counts) ==
    IF i > Len(raw_data) THEN [exc |-> "", mention_counts |-> mention_counts]
    ELSE LET step == CountRecord(mention_counts, raw_data[i], search_word)
         IN  IF step.exc # "" THEN step
             ELSE MentionCountsFrom(raw_data, i + 1, search_word, step.mention_counts)

MentionCounts(raw_data, search_word) == MentionCountsFrom(raw_data, 1, search_word, <<>>)

\* {"timestamp": timestamp, **tag_counts}
MentionEntry(timestamp, tag_counts) ==
    [k \in {"timestamp"} \cup DOMAIN tag_counts |->
        IF k \in DOMAIN tag_counts THEN tag_counts[k] ELSE timestamp]

\* the loop over mention_counts.items(), in insertion order
MentionResult(mention_counts) ==
    [i \in 1..Len(mention_counts) |-> MentionEntry(mention_counts[i][1], mention_counts[i][2])]

\* ------------------------------------------------------------ record source
\* what fetch_word_corrections_from_db hands to the handler: the rows as a list, no
\* value at all when there are no rows, or a ConnectionError
FetchOutcomes(rows) ==
    { [kind |-> "list", rows |-> rows], [kind |-> "ConnectionError", rows |-> <<>>] }
    \cup (IF rows = <<>> THEN { [kind |-> "None", rows |-> <<>>] } ELSE {})

\* "not raw_data": None and the empty list
NotRawData(raw_data) == raw_data.kind = "None" \/ raw_data.rows = <<>>

\* "raw_data is None"
RawDataIsNone(raw_data) == raw_data.kind = "None"

\* ------------------------------------------------------------------- state
VARIABLES
    db,           \* the rows the record source holds for the request's time range
    pc,           \* "fetch": the request is not yet handled; "done": it is answered
    handler,      \* the handler that answered: "get_rank" or "get_word_tags"
    tag,          \* get_rank's tag parameter
    search_word,  \* get_word_tags' search_word parameter
    raw_data,     \* what the record source returned to the handler, once it was asked
    outcome,      \* how the handler ended: "return" or the exception it raised
    status_code,  \* the response's status
    detail,       \* the detail of the error response
    result        \* the list the handler returned

vars == <<db, pc, handler, tag, search_word, raw_data, outcome, status_code, detail, result>>

Init ==
    /\ db = <<>>
    /\ pc = "fetch"
    /\ handler = None
    /\ tag = None
    /\ search_word = None
    /\ raw_data = [kind |-> "unfetched", rows |-> <<>>]
    /\ outcome = None
    /\ status_code = 0
    /\ detail = None
    /\ result = <<>>

\* the response: a returned list is a 200, an HTTPException carries its status, any
\* other exception leaves the handler unhandled (the framework's 500)
Respond(how, code, text, list) ==
    /\ outcome' = how
    /\ status_code' = code
    /\ detail' = text
    /\ result' = list
    /\ pc' = "done"

\* the record source holds one more row of the time range
StoreRankRow ==
    /\ pc = "fetch"
    /\ Len(db) < MaxLen
    /\ \E row \in RankRows : db' = Append(db, row)
    /\ UNCHANGED <<pc, handler, tag, search_word, raw_data, outcome, status_code, detail, result>>

\* the rows are one hour of one tag, the i-th with rank i
IsRun(rows) ==
    \A i \in 1..Len(rows) :
        /\ rows[i].timestamp = RunTimestamp
        /\ rows[i].content_tag = "news"
        /\ rows[i].rank = i

StoreRunRow ==
    /\ pc = "fetch"
    /\ Len(db) < MaxRun
    /\ IsRun(db)
    /\ \E c \in Counts :
         db' = Append(db, Row(RunTimestamp, "gut-i", "gud-i", "news", c, Len(db) + 1))
    /\ UNCHANGED <<pc, handler, tag, search_word, raw_data, outcome, status_code, detail, result>>

StoreMentionRow ==
    /\ pc = "fetch"
    /\ Len(db) < MaxRows
    /\ \E row \in MentionRows : db' = Append(db, row)
    /\ UNCHANGED <<pc, handler, tag, search_word, raw_data, outcome, status_code, detail, result>>

\* GET /rank
GetRank ==
    /\ pc = "fetch"
    /\ \E t \in TagParams :
         /\ handler' = "get_rank"
         /\ tag' = t
         /\ \/ /\ FailingTimes # {}
               /\ raw_data' = raw_data
               /\ Respond("ValueError", HTTP_500_INTERNAL_SERVER_ERROR,
                          "Internal Server Error", <<>>)
            \/ /\ ParsedTimes # {}
               /\ \E fetched \in FetchOutcomes(db) :
                    /\ raw_data' = fetched
                    /\ IF fetched.kind = "ConnectionError"
                       THEN Respond("HTTPException", HTTP_500_INTERNAL_SERVER_ERROR,
                                    "Unable to connect to the database.", <<>>)
                       ELSE IF NotRawData(fetched)
                       THEN Respond("HTTPException", HTTP_204_NO_CONTENT, None, <<>>)
                       ELSE Respond("return", HTTP_200_OK, None,
                                    RankResult(fetched.rows, t))
    /\ UNCHANGED <<db, search_word>>

\* GET /word_tags
GetWordTags ==
    /\ pc = "fetch"
    /\ \E w \in SearchWords :
         /\ handler' = "get_word_tags"
         /\ search_word' = w
         /\ \/ /\ FailingTimes # {}
               /\ raw_data' = raw_data
               /\ Respond("ValueError", HTTP_500_INTERNAL_SERVER_ERROR,
                          "Internal Server Error", <<>>)
            \/ /\ ParsedTimes # {}
               /\ \E fetched \in FetchOutcomes(db) :
                    /\ raw_data' = fetched
                    /\ IF fetched.kind = "ConnectionError"
                       THEN Respond("HTTPException", HTTP_500_INTERNAL_SERVER_ERROR,
                                    "Unable to connect to the database.", <<>>)
                       ELSE IF RawDataIsNone(fetched)
                       THEN Respond("HTTPException", HTTP_204_NO_CONTENT, None, <<>>)
                       ELSE LET counted == MentionCounts(fetched.rows, w)
                            IN  IF counted.exc # ""
                                THEN Respond(counted.exc, HTTP_500_INTERNAL_SERVER_ERROR,
                                             "Internal Server Error", <<>>)
                                ELSE Respond("return", HTTP_200_OK, None,
                                             MentionResult(counted.mention_counts))
    /\ UNCHANGED <<db, tag>>

\* the ranking query over the rows of the time range
NextRank == StoreRankRow \/ GetRank

SpecRank == Init /\ [][NextRank]_vars

\* the ranking query over one long bucket
NextTop == StoreRunRow \/ GetRank

SpecTop == Init /\ [][NextTop]_vars

\* the mention-summary query over the rows of the time range
NextTags == StoreMentionRow \/ GetWordTags

SpecTags == Init /\ [][NextTags]_vars

\* ================================================================= claims
\* the handler returned a list
RankReturned == pc = "done" /\ handler = "get_rank" /\ outcome = "return"

TagsReturned == pc = "done" /\ handler = "get_word_tags" /\ outcome = "return"

\* the key under which get_rank's entries carry their list
ListKey == IF TagGiven(tag) THEN tag ELSE "total"

\* the rows of bucket ts that get_rank's list of that bucket is made from
Selected(ts) ==
    { p \in 1..Len(raw_data.rows) :
        /\ StrfTime(raw_data.rows[p].timestamp) = ts
        /\ (TagGiven(tag) => raw_data.rows[p].content_tag = tag) }

\* the first row of bucket ts that carries row p's tag
TagFirst(ts, p) ==
    CHOOSE f \in 1..p :
        /\ StrfTime(raw_data.rows[f].timestamp) = ts
        /\ raw_data.rows[f].content_tag = raw_data.rows[p].content_tag
        /\ \A g \in 1..(f - 1) :
             ~ ( /\ StrfTime(raw_data.rows[g].timestamp) = ts
                 /\ raw_data.rows[g].content_tag = raw_data.rows[p].content_tag )

\* row p precedes row q in the bucket's rows taken tag by tag: tags in the order of
\* their first row, rows of one tag in the order of the input
FlatBefore(ts, p, q) ==
    \/ TagFirst(ts, p) < TagFirst(ts, q)
    \/ /\ raw_data.rows[p].content_tag = raw_data.rows[q].content_tag
       /\ p < q

\* row p is the row entry e was made from: among the bucket's selected rows of e's rank
\* it has the highest count, and is the first such row
IsKept(ts, p, e) ==
    /\ p \in Selected(ts)
    /\ WordEntry(raw_data.rows[p]) = e
    /\ \A q \in Selected(ts) \ {p} :
         raw_data.rows[q].rank = e.rank =>
            \/ raw_data.rows[q].occurrence_count < e.occurrence_count
            \/ /\ raw_data.rows[q].occurrence_count = e.occurrence_count
               /\ FlatBefore(ts, p, q)

\* ---- C1, as stated: when the record source returns no rows (an empty list or None),
\* both get_rank and get_word_tags answer 204 and never a 200 with an empty array.
C1_EmptyInputIs204 ==
    ( /\ pc = "done"
      /\ handler \in {"get_rank", "get_word_tags"}
      /\ raw_data.kind \in {"list", "None"}
      /\ raw_data.rows = <<>> )
    => ( status_code = HTTP_204_NO_CONTENT /\ outcome = "HTTPException" )

\* ---- C2, as stated: with a tag given, rows returned and none of them carrying the
\* tag, get_rank answers 204 with an empty body, not 200.
C2_NoTaggedRowIs204 ==
    ( /\ pc = "done"
      /\ handler = "get_rank"
      /\ TagGiven(tag)
      /\ raw_data.kind = "list"
      /\ raw_data.rows # <<>>
      /\ \A p \in 1..Len(raw_data.rows) : raw_data.rows[p].content_tag # tag )
    => ( status_code = HTTP_204_NO_CONTENT /\ outcome = "HTTPException" )

\* ---- C3: with a tag requested, get_rank's entries are exactly the buckets that hold
\* a row of that tag, one entry per bucket and none with an empty list; with no such
\* bucket the result is the empty array.
C3_TagFilterOmitsBuckets ==
    ( RankReturned /\ TagGiven(tag) ) =>
        /\ { result[i].timestamp : i \in 1..Len(result) }
             = { StrfTime(raw_data.rows[p].timestamp) :
                   p \in { q \in 1..Len(raw_data.rows) : raw_data.rows[q].content_tag = tag } }
        /\ \A i, j \in 1..Len(result) : result[i].timestamp = result[j].timestamp => i = j
        /\ \A i \in 1..Len(result) : result[i][tag] # <<>>

\* a bucket without the tag was left out while another bucket was emitted
C3_Witness ==
    /\ RankReturned /\ TagGiven(tag)
    /\ Len(result) = 1
    /\ \E p \in 1..Len(raw_data.rows) :
         /\ StrfTime(raw_data.rows[p].timestamp) # result[1].timestamp
         /\ raw_data.rows[p].content_tag # tag

\* ---- C4, as stated: in every entry get_word_tags returns, total is the sum of
\* news, webtoon and youtube.
C4_TotalIsChannelSum ==
    TagsReturned =>
        \A i \in 1..Len(result) :
            result[i].total = result[i].news + result[i].webtoon + result[i].youtube

\* ---- C5: in every list get_rank emits, the ranks are pairwise distinct, and the entry
\* of a rank is the first entry of that rank in the list sorted by count descending:
\* it is made from the row of that rank with the highest count, the first such row.
C5_RankDedup ==
    RankReturned =>
        \A i \in 1..Len(result) :
            LET list == result[i][ListKey]
            IN  /\ \A a, b \in 1..Len(list) : list[a].rank = list[b].rank => a = b
                /\ \A a \in 1..Len(list) :
                     \E p \in Selected(result[i].timestamp) :
                        IsKept(result[i].timestamp, p, list[a])

\* two rows of one rank met in a merged bucket and the later one, of another word pair,
\* was dropped
C5_Witness ==
    /\ RankReturned /\ ~ TagGiven(tag)
    /\ \E i \in 1..Len(result) :
         /\ Len(result[i].total) = 1
         /\ \E p, q \in Selected(result[i].timestamp) :
              /\ p # q
              /\ raw_data.rows[p].rank = raw_data.rows[q].rank
              /\ raw_data.rows[p].incorrect_word # raw_data.rows[q].incorrect_word

\* ---- C6: every list get_rank emits has at most 10 entries, for any rows and any tag.
C6_AtMostTen ==
    RankReturned =>
        \A i \in 1..Len(result) : Len(result[i][ListKey]) <= 10

\* more than ten rows of distinct ranks were in the bucket and ten entries came out
C6_Witness ==
    /\ RankReturned
    /\ \E i \in 1..Len(result) :
         /\ Len(result[i][ListKey]) = 10
         /\ Cardinality({ raw_data.rows[p].rank : p \in Selected(result[i].timestamp) }) > 10

\* ---- C7: in every list get_rank emits, occurrence_count is non-increasing from one
\* entry to the next, with and without a tag.
C7_Descending ==
    RankReturned =>
        \A i \in 1..Len(result) :
            LET list == result[i][ListKey]
            IN  \A a \in 1..(Len(list) - 1) :
                    list[a].occurrence_count >= list[a + 1].occurrence_count

\* two entries came out in the order opposite to the one their rows came in
C7_Witness ==
    /\ RankReturned
    /\ \E i \in 1..Len(result) :
         LET list == result[i][ListKey]
         IN  /\ Len(list) = 2
             /\ list[1].occurrence_count > list[2].occurrence_count
             /\ \E p, q \in Selected(result[i].timestamp) :
                  /\ p < q
                  /\ WordEntry(raw_data.rows[p]) = list[2]
                  /\ WordEntry(raw_data.rows[q]) = list[1]

\* ---- C8: the timestamp strings of get_rank's consecutive entries never decrease in
\* lexicographic order, whatever the order of the rows.
C8_BucketsAscending ==
    RankReturned =>
        \A i \in 1..(Len(result) - 1) :
            ~ StrLess(result[i + 1].timestamp, result[i].timestamp)

\* the rows came with the later hour first and two buckets came out
C8_Witness ==
    /\ RankReturned
    /\ Len(result) = 2
    /\ StrLess(StrfTime(raw_data.rows[2].timestamp), StrfTime(raw_data.rows[1].timestamp))

\* ---- C9, as stated: two entries of one emitted list with equal occurrence_count stand
\* in the order in which their rows came in the input, with and without a tag.
C9_TiesInScanOrder ==
    RankReturned =>
        \A i \in 1..Len(result) :
            LET list == result[i][ListKey]
                ts == result[i].timestamp
            IN  \A a, b \in 1..Len(list) :
                    ( a < b /\ list[a].occurrence_count = list[b].occurrence_count ) =>
                        \E p, q \in Selected(ts) :
                            IsKept(ts, p, list[a]) /\ IsKept(ts, q, list[b]) /\ p < q

\* ---- C9, amended: two entries of one emitted list with equal occurrence_count stand
\* in the order of the list that was sorted: with a tag given, the order of their rows in
\* the input; with no tag, the bucket's rows taken tag by tag (tags in the order of their
\* first row in the bucket, rows of one tag in input order).
C9_TiesInFlattenedOrder ==
    RankReturned =>
        \A i \in 1..Len(result) :
            LET list == result[i][ListKey]
                ts == result[i].timestamp
            IN  \A a, b \in 1..Len(list) :
                    ( a < b /\ list[a].occurrence_count = list[b].occurrence_count ) =>
                        \E p, q \in Selected(ts) :
                            /\ IsKept(ts, p, list[a]) /\ IsKept(ts, q, list[b])
                            /\ FlatBefore(ts, p, q)
                            /\ (TagGiven(tag) => p < q)

\* with no tag, two entries tie and the one whose row came later stands first, its tag
\* having come first in the bucket
C9_Witness ==
    /\ RankReturned /\ ~ TagGiven(tag)
    /\ \E i \in 1..Len(result) :
         LET list == result[i].total
             ts == result[i].timestamp
         IN  /\ Len(list) = 2
             /\ list[1].occurrence_count = list[2].occurrence_count
             /\ \E p, q \in Selected(ts) :
                  IsKept(ts, p, list[1]) /\ IsKept(ts, q, list[2]) /\ q < p

\* ---- C10, as stated: when a row's tag is any string other than news, webtoon and
\* youtube, get_word_tags ends in an error and returns no result.
C10_UnknownTagFaults ==
    ( /\ pc = "done"
      /\ handler = "get_word_tags"
      /\ raw_data.kind = "list"
      /\ \E p \in 1..Len(raw_data.rows) :
           raw_data.rows[p].content_tag \notin {"news", "webtoon", "youtube"} )
    => ( outcome \in {"KeyError", "TypeError"} /\ result = <<>> )

====
